---- MODULE Spec2Model ----
(***************************************************************************)
(* Model of the movie-proxy Flask application (src/app.py): the record     *)
(* store (table downloads), the disk cache under CACHE_DIR, and the three  *)
(* request handlers submit, download_page and download, the last one       *)
(* together with the generators stream_from_cache and stream_and_cache     *)
(* that the WSGI server iterates after the handler has returned.           *)
(*                                                                         *)
(* Requests run concurrently (Flask's development server is threaded), so  *)
(* each request occupies a slot of Reqs and advances one system call,      *)
(* database statement or generator step at a time.                         *)
(*                                                                         *)
(* The cache directory is modelled as a POSIX directory: a path names an   *)
(* inode, open(path, 'wb') truncates the inode the path names (or creates  *)
(* one), os.remove unlinks the path while open descriptors keep the inode, *)
(* and every descriptor has its own offset.  File data are sequences of    *)
(* bytes; byte 0 is what a hole left by a write past the end reads as.     *)
(*                                                                         *)
(* Granularity: a database statement is one step; is_cache_valid together  *)
(* with the getsize that follows a hit is one step; cache_file.write is    *)
(* taken to reach the file when it is called (no user-space buffering);    *)
(* a raising requests.get and the except clause it triggers are one step.  *)
(* The timestamp column of a row is not modelled: no statement reads it.   *)
(***************************************************************************)
EXTENDS Integers, Sequences, FiniteSets, TLC

\* ---------------------------------------------------------------------------
\* Configuration (src/app.py:13-17)
\* ---------------------------------------------------------------------------
CACHE_DIR == "cache"

CACHE_TTL_SECONDS == 7 * 24 * 3600

BASE_URL == "http://localhost:5000"

\* ---------------------------------------------------------------------------
\* Bounds of the model
\* ---------------------------------------------------------------------------
\* chunk_size of iter_content and of f.read, scaled down from 8192 bytes
ChunkSize == 1

\* the clock is sampled at 0 and at the seconds within MaxSlack of the TTL
MaxSlack == 1

\* the request slots (concurrent WSGI worker threads)
Reqs == {"r1", "r2"}

\* the identifiers generate_id may return (6 hex characters)
Ids == {"a1b2c3", "d4e5f6"}

\* Python's None, SQL NULL, and a key absent from the JSON body
None == "<None>"

Missing == "<missing>"

\* a page URL that needs the resolver, and the tokenised URLs it resolves to
U_PAGE == "https://wildshare.net/f/abc123"

U_TOK1 == "https://wildshare.net/get/abc123?pt=t1"

U_TOK2 == "https://wildshare.net/get/abc123?pt=t2"

ResolvedUrls == {U_TOK1, U_TOK2}

\* the JSON bodies POSTed to /submit
Bodies ==
  { [url |-> U_PAGE, filename |-> "movie.mkv"],
    [url |-> U_TOK1, filename |-> "movie.mkv"],
    [url |-> U_TOK1, filename |-> Missing],
    [url |-> U_TOK1, filename |-> None],
    [url |-> "",     filename |-> "movie.mkv"],
    [url |-> Missing, filename |-> "movie.mkv"] }

\* the bodies an upstream server answers a GET with: one of two chunks (a full
\* chunk and one more byte) and one of a single byte
Contents == { [i \in 1..(ChunkSize + 1) |-> i], <<9>> }

\* what requests.get does: it raises, or answers with a status and a body
UpstreamResults ==
  { [kind |-> "raise", body |-> <<>>], [kind |-> "non200", body |-> <<>>] }
  \cup { [kind |-> "ok", body |-> c] : c \in Contents }

TimePoints ==
  {0} \cup ((CACHE_TTL_SECONDS - MaxSlack) .. (CACHE_TTL_SECONDS + MaxSlack))

\* ---------------------------------------------------------------------------
\* Pure helpers
\* ---------------------------------------------------------------------------
\* 'wildshare.net' in url
HasWildshare(url) == url \in {U_PAGE, U_TOK1, U_TOK2}

\* '?' in url
HasQuery(url) == url \in {U_TOK1, U_TOK2}

\* NeedsResolution without the test for a query string
NeedsResolution_AnyWildshare(url) == HasWildshare(url)

\* 'wildshare.net' in original_url and '?' not in original_url
NeedsResolution(url) == HasWildshare(url) /\ ~HasQuery(url)

\* hashlib.md5(url.encode()).hexdigest(), tabulated for the URLs of the model
md5hex(url) ==
  CASE url = U_PAGE -> "c62fa43c7b634e21ebd01280d31297af"
    [] url = U_TOK1 -> "35981c5bc4c7712a2cbfbbd87e4c82b7"
    [] url = U_TOK2 -> "8b442e89c59cfc1937865919ec86142c"

get_cache_path(original_url) == CACHE_DIR \o "/" \o md5hex(original_url) \o ".cache"

\* the cache files a download can name: only resolved or direct URLs are fetched
CachePaths == { get_cache_path(u) : u \in ResolvedUrls }

BuildLink(file_id) == BASE_URL \o "/download-page/" \o file_id

Min(a, b) == IF a < b THEN a ELSE b

Zeros(n) == [i \in 1..n |-> 0]

IsPrefix(s, t) == Len(s) <= Len(t) /\ SubSeq(t, 1, Len(s)) = s

\* ---------------------------------------------------------------------------
\* State
\* ---------------------------------------------------------------------------
VARIABLES
  now,        \* time.time(), in seconds
  records,    \* the rows of table downloads
  cache_dir,  \* os.path.exists(CACHE_DIR)
  dirent,     \* cache path -> inode number, 0 when the path does not exist
  inode,      \* inode number -> [used, data, mtime]
  pc,         \* per request: the step it is to take next
  rq,         \* per request: the handler's local variables and its response
  full,       \* per cache path: the last body stream_and_cache wrote completely
  submitted,  \* per id: the filename its successful POST /submit carried
  completed   \* per id: the mtime of the blob of its last complete upstream download

vars == <<now, records, cache_dir, dirent, inode, pc, rq, full, submitted, completed>>

InodeIds == 1 .. (Cardinality(CachePaths) + Cardinality(Reqs))

FreeInode == [used |-> FALSE, data |-> <<>>, mtime |-> 0]

NoFull == [set |-> FALSE, data |-> <<>>, at |-> 0]

\* the locals of a request slot before a handler has started in it
Idle ==
  [ kind |-> "none", id |-> None, status |-> 0, outcome |-> "none",
    page_filename |-> None, page_size |-> None,
    now |-> 0, todo |-> {}, path |-> None,
    original_url |-> None, filename |-> None, scraped_file_size |-> None,
    download_url |-> None, cache_path |-> None, file_size |-> -1,
    via |-> "none", content |-> <<>>, pos |-> 0, chunk |-> <<>>,
    sent |-> <<>>, written |-> <<>>, fd |-> 0, off |-> 0,
    resolves |-> 0, updates |-> 0,
    age |-> -1, shared |-> FALSE, second |-> FALSE, expect |-> NoFull ]

\* ---------------------------------------------------------------------------
\* The file system calls the application makes on the cache directory
\* ---------------------------------------------------------------------------
\* os.path.exists(path)
exists(d, path) == d[path] # 0

\* os.path.getmtime(path), for a path that exists
getmtime(d, ino, path) == ino[d[path]].mtime

\* os.path.getsize(path), for a path that exists
getsize(d, ino, path) == Len(ino[d[path]].data)

\* the descriptors the requests hold open
Held(rqn) == { rqn[r].fd : r \in Reqs } \ {0}

\* an inode is freed once no path names it and no descriptor holds it
Collect(d, ino, held) ==
  [ i \in InodeIds |->
      IF ino[i].used /\ ((\E p \in CachePaths : d[p] = i) \/ i \in held)
      THEN ino[i] ELSE FreeInode ]

NewInode(ino) == CHOOSE i \in InodeIds : ~ino[i].used /\ \A j \in InodeIds : j < i => ino[j].used

\* WriteAt with the offset ignored: every chunk lands at the start of the file
WriteAt_AtStart(data, off, chunk) == chunk \o data

\* file.write(chunk) on a descriptor at offset off: bytes between the end of
\* the file and off read as zero
WriteAt(data, off, chunk) ==
  LET padded == IF off > Len(data) THEN data \o Zeros(off - Len(data)) ELSE data
      endw   == off + Len(chunk)
  IN  SubSeq(padded, 1, off) \o chunk \o
      (IF endw < Len(padded) THEN SubSeq(padded, endw + 1, Len(padded)) ELSE <<>>)

\* f.read(ChunkSize) on a descriptor at offset off
ReadAt(data, off) ==
  IF off >= Len(data) THEN <<>> ELSE SubSeq(data, off + 1, Min(Len(data), off + ChunkSize))

\* is_cache_valid with an inclusive comparison
is_cache_valid_Inclusive(d, ino, t, cache_path) ==
  IF ~exists(d, cache_path) THEN FALSE
  ELSE LET age == t - getmtime(d, ino, cache_path)
       IN  age <= CACHE_TTL_SECONDS

\* is_cache_valid (src/app.py:47-52) evaluated on one state of the directory
is_cache_valid(d, ino, t, cache_path) ==
  IF ~exists(d, cache_path) THEN FALSE
  ELSE LET age == t - getmtime(d, ino, cache_path)
       IN  age < CACHE_TTL_SECONDS

\* ---------------------------------------------------------------------------
\* Initial state: init_db() has created an empty table, no cache directory
\* ---------------------------------------------------------------------------
Init ==
  /\ now = 0
  /\ records = {}
  /\ cache_dir = FALSE
  /\ dirent = [p \in CachePaths |-> 0]
  /\ inode = [i \in InodeIds |-> FreeInode]
  /\ pc = [r \in Reqs |-> "idle"]
  /\ rq = [r \in Reqs |-> Idle]
  /\ full = [p \in CachePaths |-> NoFull]
  /\ submitted = [i \in Ids |-> None]
  /\ completed = [i \in Ids |-> -1]

\* a slot takes a new request once the previous response has ended
Finished(r) == pc[r] \in {"idle", "done"}

\* what is left of a request once its response has ended
End(rec, status, outcome) ==
  [Idle EXCEPT !.kind = rec.kind, !.id = rec.id, !.via = rec.via,
               !.second = rec.second, !.status = status, !.outcome = outcome]

\* the rows SELECT ... WHERE id = ? returns
RowsOf(id) == { row \in records : row.id = id }

\* the wall clock advances
Tick ==
  /\ \E t \in TimePoints : t > now /\ now' = t
  /\ UNCHANGED <<records, cache_dir, dirent, inode, pc, rq, full, submitted, completed>>

\* ---------------------------------------------------------------------------
\* POST /submit (src/app.py:254-279)
\* ---------------------------------------------------------------------------
\* InsertOk for a table whose id column is not a key
InsertOk_NoKey(rows, row) ==
  /\ row.original_url # None
  /\ row.renamed_filename # None
  /\ row.generated_link # None

\* the INSERT of submit: the PRIMARY KEY and NOT NULL constraints of init_db
InsertOk(rows, row) ==
  /\ \A old \in rows : old.id # row.id
  /\ row.original_url # None
  /\ row.renamed_filename # None
  /\ row.generated_link # None

submit(r, data, file_id, db_ok) ==
  LET original_url     == IF data.url = Missing THEN None ELSE data.url
      renamed_filename == IF data.filename = Missing THEN "download.mkv" ELSE data.filename
      generated_link   == BuildLink(file_id)
      row == [ id |-> file_id, original_url |-> original_url,
               renamed_filename |-> renamed_filename,
               generated_link |-> generated_link,
               downloads |-> 0, file_size |-> None ]
      req == [Idle EXCEPT !.kind = "submit"]
  IN
  /\ Finished(r)
  /\ pc' = [pc EXCEPT ![r] = "done"]
  /\ IF original_url \in {None, ""}
     THEN /\ rq' = [rq EXCEPT ![r] = End(req, 400, "missing_url")]
          /\ UNCHANGED <<records, submitted>>
     ELSE IF db_ok /\ InsertOk(records, row)
     THEN /\ records' = records \cup {row}
          /\ submitted' = [submitted EXCEPT ![file_id] = renamed_filename]
          /\ rq' = [rq EXCEPT ![r] = End([req EXCEPT !.id = file_id], 200, "ok")]
     ELSE \* sqlite3 raises (OperationalError when locked, else IntegrityError)
          /\ rq' = [rq EXCEPT ![r] =
                     End([req EXCEPT !.id = file_id], 500,
                         IF ~db_ok THEN "operational_error"
                         ELSE IF RowsOf(file_id) # {} THEN "duplicate_id"
                         ELSE "not_null")]
          /\ UNCHANGED <<records, submitted>>
  /\ UNCHANGED <<now, cache_dir, dirent, inode, full, completed>>

\* ---------------------------------------------------------------------------
\* GET /download-page/<id> (src/app.py:281-405)
\* ---------------------------------------------------------------------------
\* select_page reading the wrong column
select_page_WrongColumn(row) ==
  [ filename  |-> row.original_url,
    file_size |-> IF row.file_size \in {None, ""} THEN "Unknown size" ELSE row.file_size ]

\* SELECT renamed_filename, file_size (line 284) and the default of line 293
select_page(row) ==
  [ filename  |-> row.renamed_filename,
    file_size |-> IF row.file_size \in {None, ""} THEN "Unknown size" ELSE row.file_size ]

download_page(r, id) ==
  LET req == [Idle EXCEPT !.kind = "page", !.id = id] IN
  /\ Finished(r)
  /\ pc' = [pc EXCEPT ![r] = "done"]
  /\ IF RowsOf(id) = {}
     THEN rq' = [rq EXCEPT ![r] = End(req, 404, "not_found")]
     ELSE \E row \in RowsOf(id) :
            rq' = [rq EXCEPT ![r] =
                     [End(req, 200, "ok") EXCEPT
                        !.page_filename = select_page(row).filename,
                        !.page_size = select_page(row).file_size]]
  /\ UNCHANGED <<now, records, cache_dir, dirent, inode, full, submitted, completed>>

\* ---------------------------------------------------------------------------
\* GET /download/<id> (src/app.py:407-495)
\* ---------------------------------------------------------------------------
\* Unlink that leaves the directory entry in place
Unlink_KeepEntry(path, rqn) == UNCHANGED <<dirent, inode, full>>

\* os.remove(path) of a path that exists; the descriptors in rqn stay open
Unlink(path, rqn) ==
  LET d == [dirent EXCEPT ![path] = 0] IN
  /\ dirent' = d
  /\ inode' = Collect(d, inode, Held(rqn))
  /\ full' = [full EXCEPT ![path] = NoFull]

\* closing a descriptor: rqn no longer holds it
CloseIn(rqn) == inode' = Collect(dirent, inode, Held(rqn))

AfterSweep(todo) == IF todo = {} THEN "lookup" ELSE "scan"

\* clean_old_cache (lines 54-61) run in one piece at time t on directory d:
\* the directory it leaves
clean_old_cache(dir_exists, d, ino, t) ==
  IF ~dir_exists THEN d
  ELSE [ p \in CachePaths |->
           IF exists(d, p) /\ t - getmtime(d, ino, p) > CACHE_TTL_SECONDS
           THEN 0 ELSE d[p] ]

\* clean_old_cache, lines 56-59: the directory test, now, and the glob
download_start(r, id) ==
  LET req  == [Idle EXCEPT !.kind = "download", !.id = id,
                           !.second = (completed[id] >= 0
                                       /\ now - completed[id] < CACHE_TTL_SECONDS)]
      todo == { p \in CachePaths : exists(dirent, p) }
  IN
  /\ Finished(r)
  /\ IF ~cache_dir \/ todo = {}
     THEN /\ pc' = [pc EXCEPT ![r] = "lookup"]
          /\ rq' = [rq EXCEPT ![r] = req]
     ELSE /\ pc' = [pc EXCEPT ![r] = "scan"]
          /\ rq' = [rq EXCEPT ![r] = [req EXCEPT !.now = now, !.todo = todo]]
  /\ UNCHANGED <<now, records, cache_dir, dirent, inode, full, submitted, completed>>

\* clean_old_cache, line 60: os.path.getmtime(path) and the comparison
sweep_stat(r, path) ==
  /\ pc[r] = "scan"
  /\ path \in rq[r].todo
  /\ IF ~exists(dirent, path)
     THEN \* FileNotFoundError, unhandled
          /\ pc' = [pc EXCEPT ![r] = "done"]
          /\ rq' = [rq EXCEPT ![r] = End(@, 500, "sweep_failed")]
     ELSE IF rq[r].now - getmtime(dirent, inode, path) > CACHE_TTL_SECONDS
     THEN /\ pc' = [pc EXCEPT ![r] = "remove"]
          /\ rq' = [rq EXCEPT ![r].path = path]
     ELSE LET rest == rq[r].todo \ {path} IN
          /\ pc' = [pc EXCEPT ![r] = AfterSweep(rest)]
          /\ rq' = [rq EXCEPT ![r].todo = rest,
                              ![r].now = IF rest = {} THEN 0 ELSE @]
  /\ UNCHANGED <<now, records, cache_dir, dirent, inode, full, submitted, completed>>

\* clean_old_cache, line 61: os.remove(path)
sweep_remove(r) ==
  LET path == rq[r].path
      rest == rq[r].todo \ {path}
  IN
  /\ pc[r] = "remove"
  /\ IF ~exists(dirent, path)
     THEN \* FileNotFoundError, unhandled
          /\ pc' = [pc EXCEPT ![r] = "done"]
          /\ rq' = [rq EXCEPT ![r] = End(@, 500, "sweep_failed")]
          /\ UNCHANGED <<dirent, inode, full>>
     ELSE /\ pc' = [pc EXCEPT ![r] = AfterSweep(rest)]
          /\ rq' = [rq EXCEPT ![r].todo = rest, ![r].path = None,
                              ![r].now = IF rest = {} THEN 0 ELSE @]
          /\ Unlink(path, rq)
  /\ UNCHANGED <<now, records, cache_dir, submitted, completed>>

\* lines 411-425: the SELECT, the 404, and the needs-resolution test
lookup(r) ==
  /\ pc[r] = "lookup"
  /\ IF RowsOf(rq[r].id) = {}
     THEN /\ pc' = [pc EXCEPT ![r] = "done"]
          /\ rq' = [rq EXCEPT ![r] = End(@, 404, "not_found")]
     ELSE \E row \in RowsOf(rq[r].id) :
          /\ rq' = [rq EXCEPT ![r].original_url = row.original_url,
                              ![r].filename = row.renamed_filename,
                              ![r].scraped_file_size = row.file_size,
                              ![r].download_url = row.original_url]
          /\ pc' = [pc EXCEPT ![r] = IF NeedsResolution(row.original_url)
                                     THEN "resolve" ELSE "check"]
  /\ UNCHANGED <<now, records, cache_dir, dirent, inode, full, submitted, completed>>

\* line 428: get_wildshare_download_link(original_url) raises or returns
\* (pt_url, cookies, file_size); its size regex never matches ('$' before the
\* digits), so file_size is always "Unknown"
resolve(r, result) ==
  /\ pc[r] = "resolve"
  /\ IF result = "raise"
     THEN /\ pc' = [pc EXCEPT ![r] = "done"]
          /\ rq' = [rq EXCEPT ![r] = End([@ EXCEPT !.via = "resolver"], 500, "resolution_failed")]
     ELSE /\ pc' = [pc EXCEPT ![r] = "persist"]
          /\ rq' = [rq EXCEPT ![r].download_url = result,
                              ![r].scraped_file_size = "Unknown",
                              ![r].resolves = @ + 1]
  /\ UNCHANGED <<now, records, cache_dir, dirent, inode, full, submitted, completed>>

\* UpdateSize without its WHERE clause
UpdateSize_AllRows(rows, id, size) ==
  { [row EXCEPT !.file_size = size] : row \in rows }

\* UPDATE downloads SET file_size = ? WHERE id = ?
UpdateSize(rows, id, size) ==
  { IF row.id = id THEN [row EXCEPT !.file_size = size] ELSE row : row \in rows }

\* lines 432-437: the UPDATE runs inside the resolver's try block
persist(r, db_ok) ==
  /\ pc[r] = "persist"
  /\ IF db_ok
     THEN /\ records' = UpdateSize(records, rq[r].id, rq[r].scraped_file_size)
          /\ pc' = [pc EXCEPT ![r] = "check"]
          /\ rq' = [rq EXCEPT ![r].updates = @ + 1]
     ELSE /\ pc' = [pc EXCEPT ![r] = "done"]
          /\ rq' = [rq EXCEPT ![r] = End([@ EXCEPT !.via = "persist"], 500, "resolution_failed")]
          /\ UNCHANGED records
  /\ UNCHANGED <<now, cache_dir, dirent, inode, full, submitted, completed>>

\* lines 440-442 and 447-454: get_cache_path, is_cache_valid, and on a hit
\* os.path.getsize and the Response around stream_from_cache
cache_check(r) ==
  LET cache_path == get_cache_path(rq[r].download_url)
      age == IF exists(dirent, cache_path)
             THEN now - getmtime(dirent, inode, cache_path) ELSE -1
  IN
  /\ pc[r] = "check"
  /\ IF is_cache_valid(dirent, inode, now, cache_path)
     THEN /\ pc' = [pc EXCEPT ![r] = "hit_open"]
          /\ rq' = [rq EXCEPT ![r].cache_path = cache_path, ![r].age = age,
                              ![r].file_size = getsize(dirent, inode, cache_path),
                              ![r].via = "cache", ![r].status = 200,
                              ![r].expect =
                                 IF full[cache_path].set
                                    /\ now - full[cache_path].at < CACHE_TTL_SECONDS
                                 THEN full[cache_path] ELSE NoFull]
     ELSE /\ pc' = [pc EXCEPT ![r] = "fetch"]
          /\ rq' = [rq EXCEPT ![r].cache_path = cache_path, ![r].age = age]
  /\ UNCHANGED <<now, records, cache_dir, dirent, inode, full, submitted, completed>>

\* stream_from_cache, line 444: open(cache_path, 'rb')
hit_open(r) ==
  LET cache_path == rq[r].cache_path IN
  /\ pc[r] = "hit_open"
  /\ IF ~exists(dirent, cache_path)
     THEN /\ pc' = [pc EXCEPT ![r] = "done"]
          /\ rq' = [rq EXCEPT ![r] = End(@, 500, "cache_failed")]
     ELSE /\ pc' = [pc EXCEPT ![r] = "hit_read"]
          /\ rq' = [rq EXCEPT ![r].fd = dirent[cache_path], ![r].off = 0, ![r].age = -1]
  /\ UNCHANGED <<now, records, cache_dir, dirent, inode, full, submitted, completed>>

\* stream_from_cache, lines 445-446: f.read(8192), yield, and the close at EOF
hit_read(r) ==
  LET chunk == ReadAt(inode[rq[r].fd].data, rq[r].off) IN
  /\ pc[r] = "hit_read"
  /\ IF chunk = <<>>
     THEN /\ pc' = [pc EXCEPT ![r] = "done"]
          /\ rq' = [rq EXCEPT ![r] = [End(@, 200, "ok") EXCEPT
                                        !.sent = rq[r].sent, !.file_size = rq[r].file_size,
                                        !.expect = rq[r].expect]]
          /\ CloseIn(rq')
     ELSE /\ rq' = [rq EXCEPT ![r].sent = @ \o chunk, ![r].off = @ + Len(chunk)]
          /\ UNCHANGED <<pc, inode>>
  /\ UNCHANGED <<now, records, cache_dir, dirent, full, submitted, completed>>

\* fetch with the cleanup of the except clause run for a non-200 answer too
fetch_CleanupOnNon200(r, result) ==
  LET cache_path == rq[r].cache_path IN
  /\ pc[r] = "fetch"
  /\ cache_dir' = TRUE
  /\ IF result.kind \in {"raise", "non200"}
     THEN /\ pc' = [pc EXCEPT ![r] = "done"]
          /\ rq' = [rq EXCEPT ![r] =
                     IF result.kind = "raise"
                     THEN End([@ EXCEPT !.via = "upstream"], 500, "download_failed")
                     ELSE End([@ EXCEPT !.via = "upstream"], 502, "upstream_error")]
          /\ IF exists(dirent, cache_path)
             THEN Unlink(cache_path, rq)
             ELSE UNCHANGED <<dirent, inode, full>>
     ELSE /\ pc' = [pc EXCEPT ![r] = "gen_open"]
          /\ rq' = [rq EXCEPT ![r].content = result.body, ![r].file_size = Len(result.body),
                              ![r].via = "upstream", ![r].status = 200, ![r].age = -1]
          /\ UNCHANGED <<dirent, inode, full>>
  /\ UNCHANGED <<now, records, submitted, completed>>

\* lines 457-478 and 492-495: os.makedirs, requests.get, the status test, the
\* response headers (upstream announces the length of its body); a raising
\* requests.get runs the except clause
fetch(r, result) ==
  LET cache_path == rq[r].cache_path IN
  /\ pc[r] = "fetch"
  /\ cache_dir' = TRUE
  /\ IF result.kind = "raise"
     THEN /\ pc' = [pc EXCEPT ![r] = "done"]
          /\ rq' = [rq EXCEPT ![r] = End([@ EXCEPT !.via = "upstream"], 500, "download_failed")]
          /\ IF exists(dirent, cache_path)
             THEN Unlink(cache_path, rq)
             ELSE UNCHANGED <<dirent, inode, full>>
     ELSE IF result.kind = "non200"
     THEN /\ pc' = [pc EXCEPT ![r] = "done"]
          /\ rq' = [rq EXCEPT ![r] = End([@ EXCEPT !.via = "upstream"], 502, "upstream_error")]
          /\ UNCHANGED <<dirent, inode, full>>
     ELSE /\ pc' = [pc EXCEPT ![r] = "gen_open"]
          /\ rq' = [rq EXCEPT ![r].content = result.body, ![r].file_size = Len(result.body),
                              ![r].via = "upstream", ![r].status = 200, ![r].age = -1]
          /\ UNCHANGED <<dirent, inode, full>>
  /\ UNCHANGED <<now, records, submitted, completed>>

\* the requests whose stream_and_cache holds inode i open for writing
Writers(i) == { q \in Reqs : pc[q] \in {"stream", "yielded"} /\ rq[q].fd = i }

\* stream_and_cache, line 481: open(cache_path, 'wb') creates or truncates
gen_open(r) ==
  LET cache_path == rq[r].cache_path
      i == IF exists(dirent, cache_path) THEN dirent[cache_path] ELSE NewInode(inode)
  IN
  /\ pc[r] = "gen_open"
  /\ dirent' = [dirent EXCEPT ![cache_path] = i]
  /\ inode' = [inode EXCEPT ![i] = [used |-> TRUE, data |-> <<>>, mtime |-> now]]
  /\ rq' = [ q \in Reqs |->
              IF q = r THEN [rq[q] EXCEPT !.fd = i, !.off = 0, !.shared = Writers(i) # {}]
              ELSE IF q \in Writers(i) THEN [rq[q] EXCEPT !.shared = TRUE]
              ELSE rq[q] ]
  /\ pc' = [pc EXCEPT ![r] = "stream"]
  /\ UNCHANGED <<now, records, cache_dir, full, submitted, completed>>

\* stream_and_cache, lines 482-484: iter_content hands over the next chunk, of
\* n bytes (at most chunk_size, fewer when the socket had fewer), and the
\* generator yields it
stream_next(r, n) ==
  LET chunk == SubSeq(rq[r].content, rq[r].pos + 1, rq[r].pos + n) IN
  /\ pc[r] = "stream"
  /\ n <= Len(rq[r].content) - rq[r].pos
  /\ rq' = [rq EXCEPT ![r].chunk = chunk, ![r].pos = @ + n, ![r].sent = @ \o chunk]
  /\ pc' = [pc EXCEPT ![r] = "yielded"]
  /\ UNCHANGED <<now, records, cache_dir, dirent, inode, full, submitted, completed>>

\* stream_and_cache, line 485: cache_file.write(chunk)
stream_write(r) ==
  LET i == rq[r].fd IN
  /\ pc[r] = "yielded"
  /\ inode' = [inode EXCEPT ![i].data = WriteAt(@, rq[r].off, rq[r].chunk),
                            ![i].mtime = now]
  /\ rq' = [rq EXCEPT ![r].written = @ \o rq[r].chunk,
                      ![r].off = @ + Len(rq[r].chunk),
                      ![r].chunk = <<>>]
  /\ pc' = [pc EXCEPT ![r] = "stream"]
  /\ UNCHANGED <<now, records, cache_dir, dirent, full, submitted, completed>>

\* iter_content is exhausted: the with block closes the file, the response ends
stream_end(r) ==
  LET i == rq[r].fd
      cache_path == rq[r].cache_path
  IN
  /\ pc[r] = "stream"
  /\ rq[r].pos = Len(rq[r].content)
  /\ pc' = [pc EXCEPT ![r] = "done"]
  /\ rq' = [rq EXCEPT ![r] = End(@, 200, "ok")]
  /\ CloseIn(rq')
  /\ full' = IF dirent[cache_path] = i
             THEN [full EXCEPT ![cache_path] =
                     [set |-> TRUE, data |-> rq[r].content, at |-> inode[i].mtime]]
             ELSE full
  /\ completed' = [completed EXCEPT ![rq[r].id] = inode[i].mtime]
  /\ UNCHANGED <<now, records, cache_dir, dirent, submitted>>

\* iter_content raises in the generator (the upstream connection breaks): the
\* with block closes the file; download's except clause is no longer on the stack
stream_abort(r) ==
  /\ pc[r] = "stream"
  /\ rq[r].pos < Len(rq[r].content)
  /\ pc' = [pc EXCEPT ![r] = "done"]
  /\ rq' = [rq EXCEPT ![r] = End(@, 200, "aborted")]
  /\ CloseIn(rq')
  /\ UNCHANGED <<now, records, cache_dir, dirent, full, submitted, completed>>

\* the client goes away while the generator is suspended at its yield: the
\* server closes the generator (GeneratorExit), the with block closes the file
client_disconnect(r) ==
  /\ pc[r] = "yielded"
  /\ pc' = [pc EXCEPT ![r] = "done"]
  /\ rq' = [rq EXCEPT ![r] = End(@, 200, "disconnected")]
  /\ CloseIn(rq')
  /\ UNCHANGED <<now, records, cache_dir, dirent, full, submitted, completed>>

\* the steps of clean_old_cache after its glob
SweepStep(r) ==
  \/ \E path \in CachePaths : sweep_stat(r, path)
  \/ sweep_remove(r)

\* the steps of download from the SELECT to the Response, with the resolver
\* answering from resolved and the upstream server from upstream
HandlerStep(r, resolved, upstream) ==
  \/ lookup(r)
  \/ \E result \in {"raise"} \cup resolved : resolve(r, result)
  \/ \E db_ok \in BOOLEAN : persist(r, db_ok)
  \/ cache_check(r)
  \/ \E result \in upstream : fetch(r, result)

\* the steps of the generators stream_from_cache and stream_and_cache
GeneratorStep(r) ==
  \/ hit_open(r)
  \/ hit_read(r)
  \/ gen_open(r)
  \/ \E n \in 1..ChunkSize : stream_next(r, n)
  \/ stream_write(r)
  \/ stream_end(r)
  \/ stream_abort(r)
  \/ client_disconnect(r)

\* a store that holds one record, of a page URL; the other id was never created
InitCache ==
  /\ now = 0
  /\ records = { [ id |-> "a1b2c3", original_url |-> U_PAGE,
                   renamed_filename |-> "movie.mkv",
                   generated_link |-> BuildLink("a1b2c3"),
                   downloads |-> 0, file_size |-> None ] }
  /\ cache_dir = FALSE
  /\ dirent = [p \in CachePaths |-> 0]
  /\ inode = [i \in InodeIds |-> FreeInode]
  /\ pc = [r \in Reqs |-> "idle"]
  /\ rq = [r \in Reqs |-> Idle]
  /\ full = [p \in CachePaths |-> NoFull]
  /\ submitted = [i \in Ids |-> IF i = "a1b2c3" THEN "movie.mkv" ELSE None]
  /\ completed = [i \in Ids |-> -1]

\* Concurrent downloads within one TTL period: the clock stands still
NextRace ==
  \/ \E r \in Reqs, id \in Ids : download_start(r, id)
  \/ \E r \in Reqs, path \in CachePaths : sweep_stat(r, path)
  \/ \E r \in Reqs : HandlerStep(r, ResolvedUrls, UpstreamResults)
  \/ \E r \in Reqs : GeneratorStep(r)

SpecRace == InitCache /\ [][NextRace]_vars

\* Concurrent downloads while the clock advances past the TTL: the resolver
\* keeps returning the same URL, the upstream body is a single chunk
NextTTL ==
  \/ Tick
  \/ \E r \in Reqs, id \in Ids : download_page(r, id)
  \/ \E r \in Reqs, id \in Ids : download_start(r, id)
  \/ \E r \in Reqs : SweepStep(r)
  \/ \E r \in Reqs : HandlerStep(r, {U_TOK1},
                                 { u \in UpstreamResults : Len(u.body) <= 1 })
  \/ \E r \in Reqs : GeneratorStep(r)

SpecTTL == InitCache /\ [][NextTTL]_vars

\* The record store: submits, download pages and downloads while the upstream
\* server is unreachable
NextStore ==
  \/ \E r \in Reqs, data \in Bodies, file_id \in Ids, db_ok \in BOOLEAN :
        submit(r, data, file_id, db_ok)
  \/ \E r \in Reqs, id \in Ids : download_page(r, id)
  \/ \E r \in Reqs, id \in Ids : download_start(r, id)
  \/ \E r \in Reqs : HandlerStep(r, ResolvedUrls,
                                 { u \in UpstreamResults : u.kind # "ok" })

SpecStore == Init /\ [][NextStore]_vars

\* ---------------------------------------------------------------------------
\* Properties
\* ---------------------------------------------------------------------------
\* request r takes a step that ends its response with the given outcome
Ends(r, outcome) == pc[r] # "done" /\ pc'[r] = "done" /\ rq'[r].outcome = outcome

\* C1: when iter_content raises in the middle of stream_and_cache, the blob the
\* request was writing is deleted: its path does not name a fresh entry any more
C1_AbortDeletesPartialBlob ==
  [][ \A r \in Reqs :
        (pc[r] = "stream" /\ rq[r].written # <<>> /\ Ends(r, "aborted")) =>
          ~( dirent'[rq[r].cache_path] = rq[r].fd
             /\ is_cache_valid(dirent', inode', now', rq[r].cache_path) ) ]_vars

\* C2: when the client disconnects in the middle of stream_and_cache, the path
\* is not left naming a fresh blob shorter than the upstream body
C2_DisconnectLeavesNoTruncatedFresh ==
  [][ \A r \in Reqs :
        (pc[r] = "yielded" /\ Ends(r, "disconnected")) =>
          ~( is_cache_valid(dirent', inode', now', rq[r].cache_path)
             /\ getsize(dirent', inode', rq[r].cache_path) < Len(rq[r].content) ) ]_vars

\* C3: a download served by stream_from_cache, whose cache check found the key
\* within the TTL of a completely streamed body, delivers exactly that body
\* and announces its length as Content-Length
C3_CacheRoundTrip ==
  \A r \in Reqs :
    (pc[r] = "done" /\ rq[r].via = "cache" /\ rq[r].outcome = "ok" /\ rq[r].expect.set) =>
      /\ rq[r].sent = rq[r].expect.data
      /\ rq[r].file_size = Len(rq[r].expect.data)

\* C4: a download that starts within the TTL of a complete upstream download of
\* the same id never calls requests.get
C4_SecondDownloadFromCache ==
  \A r \in Reqs :
    (rq[r].kind = "download" /\ rq[r].second) => rq[r].via # "upstream"

\* C5: a download or download page of an id that has no record ends in 404
C5_UnknownIdNotFound ==
  \A r \in Reqs :
    (pc[r] = "done" /\ rq[r].kind \in {"download", "page"} /\ RowsOf(rq[r].id) = {}) =>
      rq[r].status = 404

\* C6: a download page of an id that a submit returned shows the filename of
\* that submit, whatever was submitted or downloaded in between
C6_PageShowsSubmittedFilename ==
  [][ \A r \in Reqs :
        (rq'[r] # rq[r] /\ rq'[r].kind = "page" /\ submitted[rq'[r].id] # None) =>
          /\ rq'[r].status = 200
          /\ rq'[r].page_filename = submitted[rq'[r].id] ]_vars

C6_Witness ==
  \E r \in Reqs :
    /\ pc[r] = "done" /\ rq[r].kind = "page" /\ rq[r].status = 200
    /\ rq[r].page_filename = "download.mkv"
    /\ submitted[rq[r].id] = "download.mkv"
    /\ \E row \in records : row.id # rq[r].id /\ row.file_size = "Unknown"

UniqueIds(rows) == \A x, y \in rows : x.id = y.id => x = y

\* C7: a submit whose generated id already has a record fails and leaves the
\* records as they were, and no two records ever share an id
C7_DuplicateIdRejected ==
  [][ /\ \A r \in Reqs :
           (rq'[r] # rq[r] /\ rq'[r].kind = "submit" /\ RowsOf(rq'[r].id) # {}) =>
             /\ rq'[r].status = 500
             /\ records' = records
      /\ UniqueIds(records') ]_vars

C7_Witness ==
  \E r \in Reqs :
    /\ pc[r] = "done" /\ rq[r].kind = "submit" /\ rq[r].outcome = "duplicate_id"
    /\ Cardinality(RowsOf(rq[r].id)) = 1

\* row and its successor differ in file_size at most
SameButSize(row, succ) == [succ EXCEPT !.file_size = row.file_size] = row

\* C8: every record keeps its id, original_url and filename; its file_size
\* changes only in the UPDATE of a download of that very id, which follows a
\* resolver call of the same request and leaves every other record alone
C8_OnlySizeChanges ==
  [][ /\ \A row \in records : \E succ \in records' : SameButSize(row, succ)
      /\ \A row \in records :
           row \notin records' =>
             \E r \in Reqs :
               /\ pc[r] = "persist" /\ pc'[r] = "check"
               /\ rq[r].id = row.id
               /\ rq'[r].updates = rq[r].updates + 1
               /\ rq'[r].updates <= rq'[r].resolves
               /\ \A other \in records : other.id # row.id => other \in records' ]_vars

C8_Witness ==
  \E r \in Reqs :
    /\ pc[r] = "check" /\ rq[r].updates = 1
    /\ \E row \in records : row.id = rq[r].id /\ row.file_size = "Unknown"
    /\ \E other \in records :
         other.id # rq[r].id /\ other.original_url = U_PAGE /\ other.file_size = None

C10_FreshIffAgeBelowTTL ==
  \A r \in Reqs :
    /\ pc[r] = "hit_open" => (rq[r].age >= 0 /\ rq[r].age < CACHE_TTL_SECONDS)
    /\ pc[r] = "fetch" => (rq[r].age = -1 \/ rq[r].age >= CACHE_TTL_SECONDS)
    /\ (pc[r] \in {"hit_open", "fetch"} /\ rq[r].age = CACHE_TTL_SECONDS - 1)
         => pc[r] = "hit_open"
    /\ (pc[r] \in {"hit_open", "fetch"}
        /\ rq[r].age \in {CACHE_TTL_SECONDS, CACHE_TTL_SECONDS + 1})
         => pc[r] = "fetch"

C10_Witness ==
  \E r1, r2 \in Reqs :
    /\ pc[r1] = "hit_open" /\ rq[r1].age = CACHE_TTL_SECONDS - 1
    /\ pc[r2] = "fetch" /\ rq[r2].age = CACHE_TTL_SECONDS

\* the call of clean_old_cache in request r returns; the clock has not moved
\* since the sweep read it
SweepReturns(r) ==
  /\ pc[r] # "lookup" /\ pc'[r] = "lookup"
  /\ pc[r] \in {"scan", "remove"} => rq[r].now = now

\* C11: the sweep is idempotent: when clean_old_cache returns, running it once
\* more at the same clock value leaves the cache directory as it is
C11_SweepIdempotent ==
  [][ \A r \in Reqs :
        SweepReturns(r) =>
          clean_old_cache(cache_dir', dirent', inode', now') = dirent' ]_vars

C11_Witness ==
  \E r \in Reqs :
    /\ pc[r] = "lookup" /\ cache_dir
    /\ completed[rq[r].id] >= 0
    /\ now - completed[rq[r].id] > CACHE_TTL_SECONDS
    /\ \A p \in CachePaths : ~exists(dirent, p)
    /\ \A q \in Reqs \ {r} : pc[q] = "lookup"

\* C12: a failing UPDATE of the freshly resolved size is not propagated: the
\* request goes on to the cache check and does not end in the 500 of a failed
\* resolution
C12_PersistFailureNotPropagated ==
  [][ \A r \in Reqs :
        (pc[r] = "persist" /\ pc'[r] # "persist") =>
          /\ pc'[r] = "check"
          /\ rq'[r].status # 500 ]_vars

\* C13: a download calls the resolver at most once, and only for an
\* original_url on wildshare.net without a query string; when the resolver
\* raises, that step ends the request with 500 (no retry, no requests.get) and
\* leaves the cache directory, its blobs and the records as they were
C13_ResolveOnceOrFail ==
  [][ \A r \in Reqs :
        /\ (pc[r] # "resolve" /\ pc'[r] = "resolve") =>
              /\ pc[r] = "lookup"
              /\ HasWildshare(rq'[r].original_url)
              /\ ~HasQuery(rq'[r].original_url)
              /\ rq'[r].resolves = 0
        /\ rq'[r].resolves # rq[r].resolves =>
              \/ pc[r] = "resolve" /\ pc'[r] = "persist" /\ rq'[r].resolves = 1
              \/ pc'[r] \in {"done", "lookup", "scan"} /\ rq'[r].resolves = 0
        /\ (pc[r] = "resolve" /\ pc'[r] # "resolve") =>
              \/ pc'[r] = "persist"
              \/ /\ pc'[r] = "done"
                 /\ rq'[r].status = 500 /\ rq'[r].outcome = "resolution_failed"
                 /\ rq'[r].via = "resolver"
                 /\ UNCHANGED <<records, cache_dir, dirent, inode>> ]_vars

C13_Witness ==
  \E r, q \in Reqs :
    /\ pc[r] = "done" /\ rq[r].kind = "download"
    /\ rq[r].via = "resolver" /\ rq[r].status = 500
    /\ \E row \in RowsOf(rq[r].id) : row.original_url = U_PAGE /\ row.file_size = None
    /\ pc[q] = "fetch" /\ rq[q].original_url = U_TOK1 /\ rq[q].resolves = 0

\* C14: a non-200 answer to the upstream GET ends the request with 502 before
\* stream_and_cache exists: the step creates, truncates and modifies no blob,
\* so the key of the request is exactly as fresh afterwards as it was when the
\* answer arrived, and a key that was not fresh then is not fresh afterwards
C14_Non200LeavesCacheAlone ==
  [][ \A r \in Reqs :
        (pc[r] = "fetch" /\ Ends(r, "upstream_error")) =>
          /\ rq'[r].status = 502
          /\ rq'[r].via = "upstream"
          /\ UNCHANGED <<dirent, inode>>
          /\ is_cache_valid(dirent', inode', now', rq[r].cache_path)
               = is_cache_valid(dirent, inode, now, rq[r].cache_path) ]_vars

C14_Witness ==
  \E r \in Reqs :
    /\ pc[r] = "done" /\ rq[r].outcome = "upstream_error" /\ rq[r].status = 502
    /\ \A q \in Reqs \ {r} : pc[q] = "idle"
    /\ \E p \in CachePaths :
         /\ exists(dirent, p)
         /\ getsize(dirent, inode, p) > 0
         /\ now - getmtime(dirent, inode, p) = CACHE_TTL_SECONDS

\* C15: when two stream_and_cache generators write the same cache file and both
\* have written their last chunk (only the close of the file remains), the
\* blob under the key is the complete body of one of the two fetches
C15_LastWriterWins ==
  \A r, q \in Reqs :
    ( /\ r # q
      /\ pc[r] = "stream" /\ pc[q] = "stream"
      /\ rq[r].fd = rq[q].fd
      /\ rq[r].cache_path = rq[q].cache_path
      /\ dirent[rq[r].cache_path] = rq[r].fd
      /\ rq[r].pos = Len(rq[r].content)
      /\ rq[q].pos = Len(rq[q].content) ) =>
        inode[rq[r].fd].data \in {rq[r].content, rq[q].content}

\* C16: when is_cache_valid returns true in a download, no stream_and_cache
\* has the blob open for writing, the blob holds the body of a completely
\* streamed fetch of that key, and the Content-Length of the hit is the length
\* of that body
C16_HitOnlyOnCompleteBlob ==
  [][ \A r \in Reqs :
        (pc[r] = "check" /\ pc'[r] = "hit_open") =>
          LET cache_path == rq'[r].cache_path IN
          /\ Writers(dirent[cache_path]) = {}
          /\ full[cache_path].set
          /\ inode[dirent[cache_path]].data = full[cache_path].data
          /\ rq'[r].file_size = Len(full[cache_path].data) ]_vars

\* C17: when clean_old_cache returns, every cache file still present passes
\* is_cache_valid at that moment: no entry of age TTL or more survives a sweep
C17_SweepLeavesOnlyFresh ==
  [][ \A r \in Reqs :
        SweepReturns(r) =>
          \A p \in CachePaths :
            exists(dirent', p) => is_cache_valid(dirent', inode', now', p) ]_vars

\* C18: clean_old_cache never fails: whatever another sweep removes meanwhile,
\* every step of a sweep stays in the sweep or goes on to the record lookup
C18_ConcurrentSweepsTolerated ==
  [][ \A r \in Reqs :
        (pc[r] \in {"scan", "remove"} /\ pc'[r] # pc[r]) =>
          pc'[r] \in {"scan", "remove", "lookup"} ]_vars

====
